---- MODULE Spec2Model ----
(***************************************************************************)
(* A model of src/app.py (Streamlit self-driving demo): the YOLO decode /  *)
(* suppress / remap pipeline of yolo_v3, the box annotator add_boxes, the  *)
(* frame selector get_selected_frames and the asset download loop of main. *)
(*                                                                         *)
(* Numbers.  Network outputs, confidences and the two thresholds are       *)
(* fractions in [0,1]; they are held as integers in units of 1/Scale       *)
(* (hundredths, the step of the threshold sliders).  Pixel products such   *)
(* as cx * W are therefore exact rationals n / Scale, and every conversion *)
(* to an integer (astype("int"), int()) is modelled as truncation toward   *)
(* zero of that rational.  Float rounding error is not modelled.           *)
(***************************************************************************)
EXTENDS Integers, Sequences, FiniteSets, TLC

VARIABLES
    \* ---- yolo_v3 -------------------------------------------------------
    layer_outputs,         \* net.forward(...): a sequence of layers of rows
    imgW, imgH,            \* H, W = image.shape[:2]
    confidence_threshold,  \* sidebar slider, in 1/Scale
    overlap_threshold,     \* sidebar slider, in 1/Scale
    ypc,                   \* position inside yolo_v3
    boxes,                 \* list of [x, y, w, h]
    confidences,           \* list of confidences, in 1/Scale
    class_IDs,             \* list of class ids (0-based)
    idxs,                  \* indices kept by cv2.dnn.NMSBoxes (0-based)
    yolo_boxes,            \* the returned DataFrame, one record per row
    prevRun,               \* the candidates of the previous run of yolo_v3
    \* ---- add_boxes -----------------------------------------------------
    mem,                   \* the array buffers: "src" (caller's), "work"
    abBoxes,               \* the boxes DataFrame, one record per row
    abI,                   \* position of the iterrows loop
    apc,                   \* position inside add_boxes
    abRet,                 \* the returned uint8 image
    \* ---- get_selected_frames --------------------------------------------
    summary,               \* frame -> per-label counts, in index order
    selArgs,               \* (label, min_elts, max_elts) of the last call
    selected_frames,       \* the returned index
    spc,
    \* ---- main ----------------------------------------------------------
    mpc,                   \* position inside main
    fileIdx,               \* position of the loop over EXTERNAL_FILES
    disk,                  \* file name -> "missing" | "corrupt" | "valid"
    invoked                \* file name -> calls of download_file this run

yoloVars == <<layer_outputs, imgW, imgH, confidence_threshold, overlap_threshold,
              ypc, boxes, confidences, class_IDs, idxs, yolo_boxes, prevRun>>
annotVars == <<mem, abBoxes, abI, apc, abRet>>
selectVars == <<summary, selArgs, selected_frames, spc>>
mainVars == <<mpc, fileIdx, disk, invoked>>
vars == <<yoloVars, annotVars, selectVars, mainVars>>

\* ------------------------------------------------------------------------
\* Bounds of the model
\* ------------------------------------------------------------------------
MaxRows == 3     \* rows of raw network output per image
MaxBoxes == 2    \* boxes handed to add_boxes
MaxFrames == 2   \* frames of the summary table

\* ------------------------------------------------------------------------
\* Constants of the program
\* ------------------------------------------------------------------------
Scale == 100        \* slider step 0.01: fractions are held in hundredths
NumClasses == 80    \* COCO classes: the length of detection[5:]
None == "None"      \* Python's None

\* LABEL_COLORS
LABEL_COLORS ==
    [car          |-> <<255, 0, 0>>,
     pedestrian   |-> <<0, 255, 0>>,
     truck        |-> <<0, 0, 255>>,
     trafficLight |-> <<255, 255, 0>>,
     biker        |-> <<255, 0, 255>>]

\* new_labels, one entry per line of the source list
new_labels ==
    << "pedestrian", "biker", "car", "biker", None, "truck", None, "truck",
       None, "trafficLight",
       None, None, None, None, None, None, None, None, None, None,
       None, None, None, None, None, None, None, None, None, None,
       None, None, None, None, None, None, None, None, None, None,
       None, None, None, None, None, None, None, None, None, None,
       None, None, None, None, None, None, None, None, None, None,
       None, None, None, None, None, None, None, None, None, None,
       None, None, None, None, None, None, None, None, None, None >>

\* ------------------------------------------------------------------------
\* Helpers
\* ------------------------------------------------------------------------
SeqsUpTo(S, n) == UNION {[1..k -> S] : k \in 0..n}

\* astype("int") / int(): truncation toward zero of the rational n / d, d > 0
TruncDiv(n, d) == IF n >= 0 THEN n \div d ELSE -((-n) \div d)

\* ------------------------------------------------------------------------
\* yolo_v3: the decoder loop
\* ------------------------------------------------------------------------
\* np.argmax(scores): the 0-based index of the first maximum
ArgMax(scores) ==
    LET values == {scores[k] : k \in 1..Len(scores)}
        top == CHOOSE m \in values : \A v \in values : v <= m
        at == {k \in 1..Len(scores) : scores[k] = top}
    IN  (CHOOSE i \in at : \A j \in at : i <= j) - 1

\* a mutated threshold test that also keeps a score equal to the threshold
ConfidencePassesOrEqual(confidence, threshold) == confidence >= threshold

\* `if confidence > confidence_threshold`
ConfidencePasses(confidence, threshold) == confidence > threshold

\* a mutated corner that subtracts the un-truncated half extent from the
\* un-truncated center and truncates once
BoxCornerOnce(det, Wd, Ht) ==
    << TruncDiv(2 * det.coords[1] * Wd - det.coords[3] * Wd, 2 * Scale),
       TruncDiv(2 * det.coords[2] * Ht - det.coords[4] * Ht, 2 * Scale) >>

\* box = detection[0:4] * [W, H, W, H]; box.astype("int")
ScaledBox(det, Wd, Ht) ==
    << TruncDiv(det.coords[1] * Wd, Scale), TruncDiv(det.coords[2] * Ht, Scale),
       TruncDiv(det.coords[3] * Wd, Scale), TruncDiv(det.coords[4] * Ht, Scale) >>

\* x = int(centerX - (width / 2)); y = int(centerY - (height / 2))
BoxCorner(det, Wd, Ht) ==
    LET b == ScaledBox(det, Wd, Ht)
    IN  << TruncDiv(2 * b[1] - b[3], 2), TruncDiv(2 * b[2] - b[4], 2) >>

\* the rows of all layers in the order the nested loops visit them
RECURSIVE Flatten(_)
Flatten(layers) ==
    IF layers = <<>> THEN <<>> ELSE Head(layers) \o Flatten(Tail(layers))

\* the body of the loops: the three lists after all rows have been visited
RECURSIVE DecodeLoop(_, _, _, _)
DecodeLoop(rows, threshold, Wd, Ht) ==
    IF rows = <<>>
    THEN [boxes |-> <<>>, confidences |-> <<>>, class_IDs |-> <<>>]
    ELSE LET rest == DecodeLoop(Tail(rows), threshold, Wd, Ht)
             detection == Head(rows)
             classID == ArgMax(detection.scores)
             confidence == detection.scores[classID + 1]
             corner == BoxCorner(detection, Wd, Ht)
             b == ScaledBox(detection, Wd, Ht)
         IN  IF ConfidencePasses(confidence, threshold)
             THEN [boxes |-> <<<<corner[1], corner[2], b[3], b[4]>>>> \o rest.boxes,
                   confidences |-> <<confidence>> \o rest.confidences,
                   class_IDs |-> <<classID>> \o rest.class_IDs]
             ELSE rest

\* ------------------------------------------------------------------------
\* yolo_v3: cv2.dnn.NMSBoxes(boxes, confidences, score_threshold, nms_threshold)
\* (OpenCV's NMSFast_ with eta = 1 and top_k = 0, over integer rectangles)
\* ------------------------------------------------------------------------
RectArea(r) == r[3] * r[4]

\* Rect a & b: the area of the intersection, 0 when it is empty
RectIntersectionArea(a, b) ==
    LET x1 == IF a[1] > b[1] THEN a[1] ELSE b[1]
        y1 == IF a[2] > b[2] THEN a[2] ELSE b[2]
        x2 == IF a[1] + a[3] < b[1] + b[3] THEN a[1] + a[3] ELSE b[1] + b[3]
        y2 == IF a[2] + a[4] < b[2] + b[4] THEN a[2] + a[4] ELSE b[2] + b[4]
    IN  IF x2 - x1 <= 0 \/ y2 - y1 <= 0 THEN 0 ELSE (x2 - x1) * (y2 - y1)

\* rectOverlap(a, b) > nms_threshold, where rectOverlap = 1 - jaccardDistance
\* and jaccardDistance is 0 for two rectangles of area 0
RectOverlapExceeds(a, b, nms_threshold) ==
    LET Aa == RectArea(a)
        Ab == RectArea(b)
        Aab == RectIntersectionArea(a, b)
    IN  IF Aa + Ab <= 0
        THEN Scale > nms_threshold
        ELSE Aab * Scale > nms_threshold * (Aa + Ab - Aab)

\* a mutated sort that puts the lowest score first
RECURSIVE ScoreOrderAscending(_, _)
ScoreOrderAscending(scores, remaining) ==
    IF remaining = {} THEN <<>>
    ELSE LET best == CHOOSE i \in remaining :
                        \A j \in remaining :
                            \/ scores[j] > scores[i]
                            \/ (scores[j] = scores[i] /\ i <= j)
         IN  <<best>> \o ScoreOrderAscending(scores, remaining \ {best})

\* a mutated sort in which, of two equal scores, the later one comes first
RECURSIVE ScoreOrderLastFirst(_, _)
ScoreOrderLastFirst(scores, remaining) ==
    IF remaining = {} THEN <<>>
    ELSE LET best == CHOOSE i \in remaining :
                        \A j \in remaining :
                            \/ scores[j] < scores[i]
                            \/ (scores[j] = scores[i] /\ j <= i)
         IN  <<best>> \o ScoreOrderLastFirst(scores, remaining \ {best})

\* GetMaxScoreIndex: std::stable_sort by descending score, so that of two
\* equal scores the one that came first in the input stays first
RECURSIVE ScoreOrder(_, _)
ScoreOrder(scores, remaining) ==
    IF remaining = {} THEN <<>>
    ELSE LET best == CHOOSE i \in remaining :
                        \A j \in remaining :
                            \/ scores[j] < scores[i]
                            \/ (scores[j] = scores[i] /\ i <= j)
         IN  <<best>> \o ScoreOrder(scores, remaining \ {best})

\* the greedy loop: an index is kept when its overlap with every index kept
\* so far is <= nms_threshold
RECURSIVE NMSGreedy(_, _, _, _)
NMSGreedy(bboxes, order, kept, nms_threshold) ==
    IF order = <<>> THEN kept
    ELSE LET idx == Head(order)
             keep == \A k \in 1..Len(kept) :
                        ~RectOverlapExceeds(bboxes[idx], bboxes[kept[k]], nms_threshold)
         IN  NMSGreedy(bboxes, Tail(order),
                       IF keep THEN Append(kept, idx) ELSE kept, nms_threshold)

\* the kept indices, 0-based as OpenCV returns them
NMSBoxes(bboxes, scores, score_threshold, nms_threshold) ==
    LET passing == {i \in 1..Len(scores) : scores[i] > score_threshold}
        kept == NMSGreedy(bboxes, ScoreOrder(scores, passing), <<>>, nms_threshold)
    IN  [k \in 1..Len(kept) |-> kept[k] - 1]

\* a mutated call that hands the two thresholds over in the wrong order
SuppressSwapped(bb, sc, ct, ot) == NMSBoxes(bb, sc, ot, ct)

\* idxs = cv2.dnn.NMSBoxes(boxes, confidences, confidence_threshold,
\*                         overlap_threshold)
Suppress(bb, sc, ct, ot) == NMSBoxes(bb, sc, ct, ot)

\* ------------------------------------------------------------------------
\* yolo_v3: the remap loop and the returned DataFrame
\* ------------------------------------------------------------------------
\* a mutated lookup that names the bus class "bus" instead of "truck"
NewLabelBus(classID) == IF classID = 5 THEN "bus" ELSE new_labels[classID + 1]

\* label = new_labels[class_IDs[i]]
NewLabel(classID) == new_labels[classID + 1]

RECURSIVE RemapLoop(_, _, _)
RemapLoop(kept, bb, ids) ==
    IF kept = <<>> THEN <<>>
    ELSE LET i == Head(kept)
             label == NewLabel(ids[i + 1])
             rest == RemapLoop(Tail(kept), bb, ids)
             x == bb[i + 1][1]
             y == bb[i + 1][2]
             w == bb[i + 1][3]
             h == bb[i + 1][4]
         IN  IF label = None
             THEN rest
             ELSE <<[xmin |-> x, ymin |-> y, xmax |-> x + w, ymax |-> y + h,
                     labels |-> label]>> \o rest

\* ------------------------------------------------------------------------
\* yolo_v3: inputs
\* ------------------------------------------------------------------------
\* detection[5:] with at most two non-zero class scores
ScoreVec(c1, s1, c2, s2) ==
    [k \in 1..NumClasses |->
        IF k = c1 + 1 THEN s1 ELSE IF k = c2 + 1 THEN s2 ELSE 0]

\* a row of a layer: detection[0:4] and detection[5:] (detection[4], the
\* objectness, is never read)
Detection(cx, cy, w, h, sc) == [coords |-> <<cx, cy, w, h>>, scores |-> sc]

RowCar90 == Detection(50, 50, 20, 20, ScoreVec(2, 90, 0, 10))
RowPed90 == Detection(50, 50, 20, 20, ScoreVec(2, 10, 0, 90))
RowSmall == Detection(10, 10, 5, 5, ScoreVec(2, 95, 0, 0))
RowBus == Detection(55, 50, 20, 20, ScoreVec(5, 60, 7, 60))
RowPlane == Detection(56, 20, 30, 56, ScoreVec(4, 70, 2, 20))

DetectionChoices == {RowCar90, RowPed90, RowSmall, RowBus, RowPlane}
ImageSizes == {<<100, 100>>, <<10, 10>>}
ConfidenceChoices == {50, 60, 90}
OverlapChoices == {0, 30, 60, 100}
DefaultOverlap == 30   \* overlap_threshold=0.3

\* the rows as one layer, and as two layers
LayerSplits(rows) ==
    {<<rows>>} \cup
    (IF Len(rows) < 2 THEN {}
     ELSE {<< SubSeq(rows, 1, Len(rows) \div 2),
              SubSeq(rows, Len(rows) \div 2 + 1, Len(rows)) >>})

NoRun == [ran |-> FALSE]

YoloIdle ==
    /\ layer_outputs = <<>>
    /\ imgW = 0
    /\ imgH = 0
    /\ confidence_threshold = 0
    /\ overlap_threshold = 0
    /\ ypc = "idle"
    /\ boxes = <<>>
    /\ confidences = <<>>
    /\ class_IDs = <<>>
    /\ idxs = <<>>
    /\ yolo_boxes = <<>>
    /\ prevRun = NoRun

YoloInit(overlaps) ==
    /\ layer_outputs \in UNION {LayerSplits(rows) : rows \in SeqsUpTo(DetectionChoices, MaxRows)}
    /\ \E size \in ImageSizes : imgW = size[1] /\ imgH = size[2]
    /\ confidence_threshold \in ConfidenceChoices
    /\ overlap_threshold \in overlaps
    /\ ypc = "start"
    /\ boxes = <<>>
    /\ confidences = <<>>
    /\ class_IDs = <<>>
    /\ idxs = <<>>
    /\ yolo_boxes = <<>>
    /\ prevRun = NoRun

\* ------------------------------------------------------------------------
\* yolo_v3: actions
\* ------------------------------------------------------------------------
\* the forward pass and the loops over layer_outputs
YoloDecode ==
    /\ ypc = "start"
    /\ LET r == DecodeLoop(Flatten(layer_outputs), confidence_threshold, imgW, imgH)
       IN  /\ boxes' = r.boxes
           /\ confidences' = r.confidences
           /\ class_IDs' = r.class_IDs
    /\ ypc' = "decoded"
    /\ UNCHANGED <<layer_outputs, imgW, imgH, confidence_threshold,
                   overlap_threshold, idxs, yolo_boxes, prevRun>>
    /\ UNCHANGED <<annotVars, selectVars, mainVars>>

\* the call of cv2.dnn.NMSBoxes
YoloSuppress ==
    /\ ypc = "decoded"
    /\ idxs' = Suppress(boxes, confidences, confidence_threshold, overlap_threshold)
    /\ ypc' = "suppressed"
    /\ UNCHANGED <<layer_outputs, imgW, imgH, confidence_threshold,
                   overlap_threshold, boxes, confidences, class_IDs,
                   yolo_boxes, prevRun>>
    /\ UNCHANGED <<annotVars, selectVars, mainVars>>

\* the loop over idxs and the return of the DataFrame
YoloRemap ==
    /\ ypc = "suppressed"
    /\ yolo_boxes' = IF Len(idxs) > 0 THEN RemapLoop(idxs, boxes, class_IDs) ELSE <<>>
    /\ ypc' = "done"
    /\ UNCHANGED <<layer_outputs, imgW, imgH, confidence_threshold,
                   overlap_threshold, boxes, confidences, class_IDs, idxs, prevRun>>
    /\ UNCHANGED <<annotVars, selectVars, mainVars>>

\* main is run again after the user moves the confidence_threshold slider on
\* the same frame: yolo_v3 is called with the same image and a new threshold
YoloRerun ==
    /\ ypc = "done"
    /\ \E t \in ConfidenceChoices \ {confidence_threshold} :
          confidence_threshold' = t
    /\ prevRun' = [ran |-> TRUE, threshold |-> confidence_threshold,
                   boxes |-> boxes, confidences |-> confidences,
                   class_IDs |-> class_IDs]
    /\ ypc' = "start"
    /\ boxes' = <<>>
    /\ confidences' = <<>>
    /\ class_IDs' = <<>>
    /\ idxs' = <<>>
    /\ yolo_boxes' = <<>>
    /\ UNCHANGED <<layer_outputs, imgW, imgH, overlap_threshold>>
    /\ UNCHANGED <<annotVars, selectVars, mainVars>>

YoloNext ==
    \/ YoloDecode
    \/ YoloSuppress
    \/ YoloRemap

RerunNext ==
    \/ YoloDecode
    \/ YoloSuppress
    \/ YoloRemap
    \/ YoloRerun

\* ------------------------------------------------------------------------
\* add_boxes
\*
\* An image is a function row -> column -> <<R, G, B>> over 0-based indices.
\* The float64 working copy holds each channel in units of 1/BlendScale, so
\* that the halvings of up to MaxBoxes blends are exact.
\* ------------------------------------------------------------------------
RECURSIVE Pow2(_)
Pow2(n) == IF n = 0 THEN 1 ELSE 2 * Pow2(n - 1)

BlendScale == Pow2(MaxBoxes)

Height(img) == Cardinality(DOMAIN img)
Width(img) == IF Height(img) = 0 THEN 0 ELSE Cardinality(DOMAIN img[0])

\* image.astype(np.float64): a new array
AsFloat64(img) ==
    [r \in DOMAIN img |-> [c \in DOMAIN img[r] |->
        [ch \in 1..3 |-> img[r][c][ch] * BlendScale]]]

\* image.astype(np.uint8): a new array, fractions truncated
AsUint8(buf) ==
    [r \in DOMAIN buf |-> [c \in DOMAIN buf[r] |->
        [ch \in 1..3 |-> TruncDiv(buf[r][c][ch], BlendScale) % 256]]]

\* the indices a basic slice a:b selects on an axis of length n: a negative
\* bound counts from the end, and both bounds are then clipped to [0, n]
SliceRange(a, b, n) ==
    LET start == IF a < 0 THEN (IF a + n < 0 THEN 0 ELSE a + n)
                          ELSE (IF a > n THEN n ELSE a)
        stop == IF b < 0 THEN (IF b + n < 0 THEN 0 ELSE b + n)
                         ELSE (IF b > n THEN n ELSE b)
    IN  start..(stop - 1)

\* image[ymin:ymax,xmin:xmax,:] += LABEL_COLORS[label]
\* image[ymin:ymax,xmin:xmax,:] /= 2
BlendBox(buf, box) ==
    LET rows == SliceRange(box.ymin, box.ymax, Height(buf))
        cols == SliceRange(box.xmin, box.xmax, Width(buf))
        color == LABEL_COLORS[box.label]
    IN  [r \in DOMAIN buf |-> [c \in DOMAIN buf[r] |->
            IF r \in rows /\ c \in cols
            THEN [ch \in 1..3 |-> (buf[r][c][ch] + color[ch] * BlendScale) \div 2]
            ELSE buf[r][c]]]

\* a mutated store that blends into the caller's array as well
StoreBlendInPlace(m, blended) ==
    [m EXCEPT !.work = blended, !.src = AsUint8(blended)]

\* the blend writes to the local float64 copy made on entry
StoreBlend(m, blended) == [m EXCEPT !.work = blended]

NoImage == <<>>

Box(xmin, ymin, xmax, ymax, label) ==
    [xmin |-> xmin, ymin |-> ymin, xmax |-> xmax, ymax |-> ymax, label |-> label]

BoxChoices ==
    { Box(0, 0, 2, 1, "car"),
      Box(1, 0, 3, 2, "pedestrian"),
      Box(-2, 0, -1, 2, "truck"),
      Box(3, 0, 5, 2, "car"),
      Box(2, 1, 6, 4, "biker"),
      Box(-3, -2, 0, 0, "trafficLight"),
      Box(0, 0, 1, 1, "bus") }

MkImage(seed, shape) ==
    [r \in 0..(shape[1] - 1) |-> [c \in 0..(shape[2] - 1) |->
        [ch \in 1..3 |-> (seed + 60 * r + 25 * c + 90 * ch) % 256]]]

ImageChoices == {MkImage(0, <<2, 3>>), MkImage(200, <<2, 3>>), MkImage(255, <<3, 4>>)}

AnnotIdle ==
    /\ mem = [src |-> NoImage, work |-> NoImage]
    /\ abBoxes = <<>>
    /\ abI = 0
    /\ apc = "idle"
    /\ abRet = NoImage

AnnotInit ==
    /\ \E img \in ImageChoices : mem = [src |-> img, work |-> NoImage]
    /\ abBoxes \in SeqsUpTo(BoxChoices, MaxBoxes)
    /\ abI = 0
    /\ apc = "call"
    /\ abRet = NoImage

\* image = image.astype(np.float64)
AddBoxesEnter ==
    /\ apc = "call"
    /\ mem' = [mem EXCEPT !.work = AsFloat64(mem.src)]
    /\ abI' = 1
    /\ apc' = "loop"
    /\ UNCHANGED <<abBoxes, abRet>>
    /\ UNCHANGED <<yoloVars, selectVars, mainVars>>

\* one iteration of the loop over boxes.iterrows(); LABEL_COLORS[label]
\* raises KeyError for a label that is no key, before anything is written
AddBoxesStep ==
    /\ apc = "loop"
    /\ abI <= Len(abBoxes)
    /\ IF abBoxes[abI].label \in DOMAIN LABEL_COLORS
       THEN /\ mem' = StoreBlend(mem, BlendBox(mem.work, abBoxes[abI]))
            /\ abI' = abI + 1
            /\ apc' = "loop"
       ELSE /\ apc' = "raised"
            /\ UNCHANGED <<mem, abI>>
    /\ UNCHANGED <<abBoxes, abRet>>
    /\ UNCHANGED <<yoloVars, selectVars, mainVars>>

\* return image.astype(np.uint8)
AddBoxesReturn ==
    /\ apc = "loop"
    /\ abI > Len(abBoxes)
    /\ abRet' = AsUint8(mem.work)
    /\ apc' = "returned"
    /\ UNCHANGED <<mem, abBoxes, abI>>
    /\ UNCHANGED <<yoloVars, selectVars, mainVars>>

AnnotNext ==
    \/ AddBoxesEnter
    \/ AddBoxesStep
    \/ AddBoxesReturn

\* ------------------------------------------------------------------------
\* get_selected_frames
\*
\* The summary is the result of groupby(['frame']).sum(): one row per frame,
\* in index order; a frame is named by its position in the index.
\* ------------------------------------------------------------------------
\* a mutated lower bound that is exclusive
InRangeExclusiveMin(count, min_elts, max_elts) == count > min_elts /\ count <= max_elts

\* np.logical_and(summary[label] >= min_elts, summary[label] <= max_elts)
InRange(count, min_elts, max_elts) == count >= min_elts /\ count <= max_elts

\* summary[mask].index
RECURSIVE MaskedIndex(_, _, _, _, _)
MaskedIndex(table, label, min_elts, max_elts, i) ==
    IF i > Len(table) THEN <<>>
    ELSE (IF InRange(table[i][label], min_elts, max_elts) THEN <<i>> ELSE <<>>)
         \o MaskedIndex(table, label, min_elts, max_elts, i + 1)

get_selected_frames(table, label, min_elts, max_elts) ==
    MaskedIndex(table, label, min_elts, max_elts, 1)

CountChoices == {0, 10, 11, 26}
SummaryRows == [label_car : CountChoices, label_pedestrian : CountChoices]
SummaryLabels == {"label_car", "label_pedestrian"}
MinChoices == {0, 10, 11}
MaxChoices == {9, 10, 25}

NoArgs == <<>>

SelectIdle ==
    /\ summary = <<>>
    /\ selArgs = NoArgs
    /\ selected_frames = <<>>
    /\ spc = "idle"

SelectInit ==
    /\ summary \in SeqsUpTo(SummaryRows, MaxFrames)
    /\ selArgs = NoArgs
    /\ selected_frames = <<>>
    /\ spc = "start"

\* one call; main calls again on every change of the sidebar
GetSelectedFrames ==
    /\ spc \in {"start", "returned"}
    /\ \E label \in SummaryLabels, min_elts \in MinChoices, max_elts \in MaxChoices :
          /\ selArgs' = <<label, min_elts, max_elts>>
          /\ selected_frames' = get_selected_frames(summary, label, min_elts, max_elts)
    /\ spc' = "returned"
    /\ UNCHANGED summary
    /\ UNCHANGED <<yoloVars, annotVars, mainVars>>

SelectNext == GetSelectedFrames

\* ------------------------------------------------------------------------
\* main: the asset loop and the path to yolo_v3
\* ------------------------------------------------------------------------
\* EXTERNAL_FILES, in insertion order
EXTERNAL_FILES == << "yolov3.weights", "coco.names", "yolov3.cfg" >>

FileNames == {EXTERNAL_FILES[i] : i \in 1..Len(EXTERNAL_FILES)}
FileStates == {"missing", "corrupt", "valid"}

\* file_downloaded: the file exists and its md5 is the expected one
file_downloaded(d, file) ==
    IF d[file] = "missing" THEN FALSE
    ELSE IF d[file] # "valid" THEN FALSE
    ELSE TRUE

MainIdle ==
    /\ mpc = "idle"
    /\ fileIdx = 0
    /\ disk = [f \in FileNames |-> "missing"]
    /\ invoked = [f \in FileNames |-> 0]

MainInit ==
    /\ mpc = "files"
    /\ fileIdx = 1
    /\ disk \in [FileNames -> FileStates]
    /\ invoked = [f \in FileNames |-> 0]

\* for file, info in EXTERNAL_FILES.items(): if not file_downloaded(file): ...
MainCheckFile ==
    /\ mpc = "files"
    /\ fileIdx <= Len(EXTERNAL_FILES)
    /\ IF file_downloaded(disk, EXTERNAL_FILES[fileIdx])
       THEN /\ fileIdx' = fileIdx + 1
            /\ mpc' = "files"
       ELSE /\ mpc' = "download"
            /\ UNCHANGED fileIdx
    /\ UNCHANGED <<disk, invoked>>
    /\ UNCHANGED <<yoloVars, annotVars, selectVars>>

\* download_file(file).  open(file_path, 'wb') creates or empties the file
\* before the request is made; the body is then copied in chunks until read()
\* returns nothing.  The loop over EXTERNAL_FILES goes on to the next file
\* when download_file returns.
MainDownloadFile ==
    /\ mpc = "download"
    /\ LET file == EXTERNAL_FILES[fileIdx]
       IN  /\ invoked' = [invoked EXCEPT ![file] = @ + 1]
           /\ \/ \* the body arrives whole and is the expected content
                 /\ disk' = [disk EXCEPT ![file] = "valid"]
                 /\ fileIdx' = fileIdx + 1
                 /\ mpc' = "files"
              \/ \* the stream ends early, or the server serves other content:
                 \* download_file returns normally
                 /\ disk' = [disk EXCEPT ![file] = "corrupt"]
                 /\ fileIdx' = fileIdx + 1
                 /\ mpc' = "files"
              \/ \* urlopen or read raises: the exception leaves main
                 /\ disk' = [disk EXCEPT ![file] = "corrupt"]
                 /\ mpc' = "fatal"
                 /\ UNCHANGED fileIdx
    /\ UNCHANGED <<yoloVars, annotVars, selectVars>>

\* load_metadata, create_summary, the sidebar, get_selected_frames
MainSelectFrames ==
    /\ mpc = "files"
    /\ fileIdx > Len(EXTERNAL_FILES)
    /\ \/ mpc' = "no_frames"      \* len(selected_frames) < 1: st.error, return
       \/ mpc' = "ground_truth"
    /\ UNCHANGED <<fileIdx, disk, invoked>>
    /\ UNCHANGED <<yoloVars, annotVars, selectVars>>

\* load_image, add_boxes(image, boxes), st.image, then the checkbox
MainGroundTruth ==
    /\ mpc = "ground_truth"
    /\ \/ mpc' = "yolo"           \* 'Run Yolo Detection' is ticked
       \/ mpc' = "done"           \* st.warning
    /\ UNCHANGED <<fileIdx, disk, invoked>>
    /\ UNCHANGED <<yoloVars, annotVars, selectVars>>

\* yolo_v3(image, ...): load_network(config_path, weights_path) and the
\* forward pass, then add_boxes and st.image
MainYolo ==
    /\ mpc = "yolo"
    /\ mpc' = "done"
    /\ UNCHANGED <<fileIdx, disk, invoked>>
    /\ UNCHANGED <<yoloVars, annotVars, selectVars>>

\* Streamlit runs main again on the next interaction
MainRerun ==
    /\ mpc \in {"done", "no_frames", "fatal"}
    /\ mpc' = "files"
    /\ fileIdx' = 1
    /\ invoked' = [f \in FileNames |-> 0]
    /\ UNCHANGED disk
    /\ UNCHANGED <<yoloVars, annotVars, selectVars>>

MainNext ==
    \/ MainCheckFile
    \/ MainDownloadFile
    \/ MainSelectFrames
    \/ MainGroundTruth
    \/ MainYolo
    \/ MainRerun

\* ------------------------------------------------------------------------
\* Specifications, one per part of the program
\* ------------------------------------------------------------------------
\* one call of yolo_v3, for every choice of the two thresholds
InitYolo == YoloInit(OverlapChoices) /\ AnnotIdle /\ SelectIdle /\ MainIdle
SpecYolo == InitYolo /\ [][YoloNext]_vars

\* repeated calls of yolo_v3 on one frame as the confidence slider moves
InitRerun == YoloInit({DefaultOverlap}) /\ AnnotIdle /\ SelectIdle /\ MainIdle
SpecRerun == InitRerun /\ [][RerunNext]_vars

InitAnnot == YoloIdle /\ AnnotInit /\ SelectIdle /\ MainIdle
SpecAnnot == InitAnnot /\ [][AnnotNext]_vars

InitSelect == YoloIdle /\ AnnotIdle /\ SelectInit /\ MainIdle
SpecSelect == InitSelect /\ [][SelectNext]_vars

InitMain == YoloIdle /\ AnnotIdle /\ SelectIdle /\ MainInit
SpecMain == InitMain /\ [][MainNext]_vars

\* ------------------------------------------------------------------------
\* Properties of yolo_v3
\* ------------------------------------------------------------------------
Rows == Flatten(layer_outputs)

\* the number of integers in both [a0, a1) and [b0, b1)
IntervalOverlap(a0, a1, b0, b1) == Cardinality((a0..(a1 - 1)) \cap (b0..(b1 - 1)))

\* intersection-over-union of two [x, y, w, h] boxes is greater than t / Scale
IoUGreater(a, b, t) ==
    LET inter == IntervalOverlap(a[1], a[1] + a[3], b[1], b[1] + b[3])
                 * IntervalOverlap(a[2], a[2] + a[4], b[2], b[2] + b[4])
        union == a[3] * a[4] + b[3] * b[4] - inter
    IN  union > 0 /\ inter * Scale > t * union

Suppressed == ypc \in {"suppressed", "done"}
Decoded == ypc \in {"decoded", "suppressed", "done"}

\* C1: the indices kept by the suppression step are distinct indices of the
\* candidate list, and no two kept boxes have an intersection-over-union
\* greater than overlap_threshold.
C1_NoKeptPairOverlaps ==
    Suppressed =>
        /\ \A k \in 1..Len(idxs) : idxs[k] \in 0..(Len(boxes) - 1)
        /\ \A k1, k2 \in 1..Len(idxs) :
              k1 # k2 =>
                 /\ idxs[k1] # idxs[k2]
                 /\ ~IoUGreater(boxes[idxs[k1] + 1], boxes[idxs[k2] + 1],
                                overlap_threshold)

\* C1 witness: suppression has dropped a candidate and kept two boxes that
\* do intersect (their overlap is positive but within the threshold).
C1_Witness ==
    /\ ypc = "suppressed"
    /\ Len(idxs) < Len(boxes)
    /\ \E k1, k2 \in 1..Len(idxs) :
          /\ k1 # k2
          /\ IoUGreater(boxes[idxs[k1] + 1], boxes[idxs[k2] + 1], 0)

AllBoxesIdentical == \A i \in 1..Len(boxes) : boxes[i] = boxes[1]
ConfidencesDiffer ==
    \A i, j \in 1..Len(confidences) : i # j => confidences[i] # confidences[j]

\* C6: suppression keeps at most as many boxes as it is given; with
\* overlap_threshold = 0 and two or more identical rectangles of pairwise
\* different confidence, exactly one index is kept, that of the highest
\* confidence.
C6_KeepsAtMostInputAndOnlyBest ==
    Suppressed =>
        /\ Len(idxs) <= Len(boxes)
        /\ (overlap_threshold = 0 /\ Len(boxes) >= 2
            /\ AllBoxesIdentical /\ ConfidencesDiffer)
           => /\ Len(idxs) = 1
              /\ \A i \in 1..Len(confidences) :
                    confidences[i] <= confidences[idxs[1] + 1]

\* C6 witness: two or more identical rectangles with different confidences at
\* overlap_threshold = 0, the best of which is not the first candidate.
C6_Witness ==
    /\ ypc = "suppressed"
    /\ overlap_threshold = 0
    /\ Len(boxes) >= 2
    /\ AllBoxesIdentical
    /\ ConfidencesDiffer
    /\ idxs # <<0>>

\* the largest class score of a row
RowMax(det) ==
    CHOOSE m \in {det.scores[k] : k \in 1..Len(det.scores)} :
        \A k \in 1..Len(det.scores) : det.scores[k] <= m

CandidateSet(bb, cf, ids) == {<<bb[i], cf[i], ids[i]>> : i \in 1..Len(bb)}

\* C4: the decoder loop collects a row exactly when its largest class score
\* is strictly greater than confidence_threshold, and of two runs on the same
\* raw output the candidates of the run with the higher threshold are a subset
\* of those of the run with the lower threshold.
C4_MonotonicStrictFilter ==
    Decoded =>
        /\ Len(boxes) = Cardinality({i \in 1..Len(Rows) :
                                        RowMax(Rows[i]) > confidence_threshold})
        /\ Len(confidences) = Len(boxes)
        /\ Len(class_IDs) = Len(boxes)
        /\ \A i \in 1..Len(confidences) : confidences[i] > confidence_threshold
        /\ prevRun.ran =>
              /\ prevRun.threshold < confidence_threshold =>
                    CandidateSet(boxes, confidences, class_IDs) \subseteq
                    CandidateSet(prevRun.boxes, prevRun.confidences, prevRun.class_IDs)
              /\ confidence_threshold < prevRun.threshold =>
                    CandidateSet(prevRun.boxes, prevRun.confidences, prevRun.class_IDs)
                    \subseteq CandidateSet(boxes, confidences, class_IDs)

\* C4 witness: a second run at a higher threshold collects some but not all
\* candidates of the first, and drops a row whose score equals the threshold.
C4_Witness ==
    /\ ypc = "decoded"
    /\ prevRun.ran
    /\ prevRun.threshold < confidence_threshold
    /\ boxes # <<>>
    /\ Len(boxes) < Len(prevRun.boxes)
    /\ \E i \in 1..Len(Rows) : RowMax(Rows[i]) = confidence_threshold

\* C5: new_labels has 80 entries, each a key of LABEL_COLORS or None; every
\* box of the returned BoxSet carries a label with a palette entry, and the
\* BoxSet has one box per kept index whose class does not map to None.
C5_LabelsInPaletteOrDropped ==
    /\ Len(new_labels) = 80
    /\ \A c \in 1..Len(new_labels) : new_labels[c] \in DOMAIN LABEL_COLORS \cup {None}
    /\ ypc = "done" =>
          /\ \A b \in 1..Len(yolo_boxes) : yolo_boxes[b].labels \in DOMAIN LABEL_COLORS
          /\ Len(yolo_boxes) =
                Cardinality({k \in 1..Len(idxs) :
                                new_labels[class_IDs[idxs[k] + 1] + 1] # None})

\* C5 witness: a kept detection of an unmapped class is absent from a
\* non-empty BoxSet.
C5_Witness ==
    /\ ypc = "done"
    /\ yolo_boxes # <<>>
    /\ \E k \in 1..Len(idxs) : new_labels[class_IDs[idxs[k] + 1] + 1] = None

\* the rows the decoder collects, in loop order
PassingRows ==
    SelectSeq(Rows, LAMBDA d : \E k \in 1..Len(d.scores) :
                                  d.scores[k] > confidence_threshold)

\* x is the rational n / d (d > 0) truncated toward zero
IsTruncOf(x, n, d) ==
    IF n >= 0 THEN d * x <= n /\ n < d * (x + 1)
    ELSE d * (x - 1) < n /\ n <= d * x

\* C9 as stated: the corner of every collected box is the un-truncated
\* center minus half the un-truncated extent, truncated once:
\* x = trunc(cx*W - (w*W)/2), y = trunc(cy*H - (h*H)/2).
C9_CornerTruncatedOnce ==
    Decoded =>
        /\ Len(boxes) = Len(PassingRows)
        /\ \A i \in 1..Len(boxes) :
              LET c == PassingRows[i].coords
              IN  /\ IsTruncOf(boxes[i][1], 2 * c[1] * imgW - c[3] * imgW, 2 * Scale)
                  /\ IsTruncOf(boxes[i][2], 2 * c[2] * imgH - c[4] * imgH, 2 * Scale)

\* C9 amended: the center and the extent are each truncated to integer pixels
\* first, and the corner is the truncated center minus half the truncated
\* extent, truncated again: x = trunc(trunc(cx*W) - trunc(w*W)/2),
\* y = trunc(trunc(cy*H) - trunc(h*H)/2); the extent handed to suppression is
\* the truncated one.
C9_CornerTruncatedTwice ==
    Decoded =>
        /\ Len(boxes) = Len(PassingRows)
        /\ \A i \in 1..Len(boxes) :
              LET c == PassingRows[i].coords
              IN  /\ IsTruncOf(boxes[i][3], c[3] * imgW, Scale)
                  /\ IsTruncOf(boxes[i][4], c[4] * imgH, Scale)
                  /\ \E centerX \in 0..imgW :
                        /\ IsTruncOf(centerX, c[1] * imgW, Scale)
                        /\ IsTruncOf(boxes[i][1], 2 * centerX - boxes[i][3], 2)
                  /\ \E centerY \in 0..imgH :
                        /\ IsTruncOf(centerY, c[2] * imgH, Scale)
                        /\ IsTruncOf(boxes[i][2], 2 * centerY - boxes[i][4], 2)

\* C9 witness: a collected row whose pixel center has a fractional part, whose
\* truncated width is odd and whose corner lies left of the one-truncation
\* corner.
C9_Witness ==
    /\ ypc = "decoded"
    /\ \E i \in 1..Len(boxes) :
          LET c == PassingRows[i].coords
          IN  /\ (c[1] * imgW) % Scale # 0
              /\ boxes[i][3] % 2 = 1
              /\ 2 * Scale * (boxes[i][1] + 1) <= 2 * c[1] * imgW - c[3] * imgW

EndToEndInput ==
    /\ layer_outputs = << << Detection(50, 50, 20, 20, ScoreVec(2, 90, 0, 10)),
                             Detection(50, 50, 20, 20, ScoreVec(2, 10, 0, 90)),
                             Detection(10, 10, 5, 5, ScoreVec(2, 95, 0, 0)) >> >>
    /\ imgW = 100
    /\ imgH = 100
    /\ confidence_threshold = 50
    /\ overlap_threshold = 30

Abs(n) == IF n < 0 THEN -n ELSE n

\* C8: for the three-row single-layer output at W = H = 100 with thresholds
\* 0.5 and 0.3 (class scores placed at the classes new_labels maps to car and
\* pedestrian), the pipeline returns exactly two boxes: a car box at
\* (40,40)-(60,60) coming from the first of the two equal-confidence rows, and
\* a small box within one pixel of (8,8)-(13,13).
C8_EndToEndTwoBoxes ==
    (EndToEndInput /\ ypc = "done") =>
        /\ Len(yolo_boxes) = 2
        /\ \E k \in 1..Len(idxs) : idxs[k] = 0
        /\ \A k \in 1..Len(idxs) : idxs[k] # 1
        /\ \E b \in 1..2 :
              yolo_boxes[b] = [xmin |-> 40, ymin |-> 40, xmax |-> 60, ymax |-> 60,
                               labels |-> "car"]
        /\ \E b \in 1..2 :
              /\ Abs(yolo_boxes[b].xmin - 8) <= 1
              /\ Abs(yolo_boxes[b].ymin - 8) <= 1
              /\ Abs(yolo_boxes[b].xmax - 13) <= 1
              /\ Abs(yolo_boxes[b].ymax - 13) <= 1

\* C8 witness: the pipeline has run to its end on that input.
C8_Witness ==
    /\ EndToEndInput
    /\ ypc = "done"
    /\ Len(boxes) = 3
    /\ Len(idxs) = 2

\* ------------------------------------------------------------------------
\* Properties of add_boxes
\* ------------------------------------------------------------------------
\* the rectangle of a box lies fully outside an image of height h, width w
FullyOutside(box, h, w) ==
    \/ box.xmax <= 0
    \/ box.ymax <= 0
    \/ box.xmin >= w
    \/ box.ymin >= h

\* C3: when every box lies fully outside the image, add_boxes returns an image
\* equal pixel for pixel to the source image.
C3_OutsideBoxesLeaveImageUnchanged ==
    (/\ apc = "returned"
     /\ \A i \in 1..Len(abBoxes) :
           FullyOutside(abBoxes[i], Height(mem.src), Width(mem.src)))
    => abRet = mem.src

\* one channel of one pixel after the boxes i..Len(bs) have been blended in
\* order, in units of 1/BlendScale
RECURSIVE PixelAfter(_, _, _, _, _, _, _, _)
PixelAfter(v, r, c, ch, bs, i, h, w) ==
    IF i > Len(bs) THEN v
    ELSE LET b == bs[i]
             covered == /\ r \in SliceRange(b.ymin, b.ymax, h)
                        /\ c \in SliceRange(b.xmin, b.xmax, w)
         IN  PixelAfter(IF covered
                        THEN (v + LABEL_COLORS[b.label][ch] * BlendScale) \div 2
                        ELSE v,
                        r, c, ch, bs, i + 1, h, w)

\* every pixel of img is the source pixel with all boxes blended in order
AllBoxesBlended(img, src, bs) ==
    /\ DOMAIN img = DOMAIN src
    /\ \A r \in DOMAIN src :
          /\ DOMAIN img[r] = DOMAIN src[r]
          /\ \A c \in DOMAIN src[r] : \A ch \in 1..3 :
                img[r][c][ch] =
                   PixelAfter(src[r][c][ch] * BlendScale, r, c, ch, bs, 1,
                              Height(src), Width(src)) \div BlendScale

\* C10: a step of add_boxes never changes the caller's source image, also
\* when the call raises on a label with no palette entry; an image is returned
\* only by a call that has blended every box, it has the dimensions of the
\* source and holds all boxes blended in BoxSet order; a call that raised
\* returns nothing.
C10_SourceUntouchedAllOrNothing ==
    /\ [][mem'.src = mem.src]_vars
    /\ [](apc = "raised" => abRet = NoImage)
    /\ [](abRet # NoImage => apc = "returned")
    /\ [](apc = "returned" =>
             /\ abI = Len(abBoxes) + 1
             /\ AllBoxesBlended(abRet, mem.src, abBoxes))

\* C10 witness: two boxes have been blended, the second on top of the
\* first, and the returned image differs from the untouched source.
C10_Witness ==
    /\ apc = "returned"
    /\ Len(abBoxes) = 2
    /\ abRet # mem.src
    /\ \E r \in DOMAIN mem.src : \E c \in DOMAIN mem.src[r] :
          /\ r \in SliceRange(abBoxes[1].ymin, abBoxes[1].ymax, Height(mem.src))
          /\ c \in SliceRange(abBoxes[1].xmin, abBoxes[1].xmax, Width(mem.src))
          /\ r \in SliceRange(abBoxes[2].ymin, abBoxes[2].ymax, Height(mem.src))
          /\ c \in SliceRange(abBoxes[2].xmin, abBoxes[2].xmax, Width(mem.src))

\* C10 witness, failing call: the second box has no palette entry, the first
\* was blended into the working copy, and nothing was returned.
C10_WitnessRaised ==
    /\ apc = "raised"
    /\ abI = 2
    /\ mem.work # AsFloat64(mem.src)

\* ------------------------------------------------------------------------
\* Properties of get_selected_frames
\* ------------------------------------------------------------------------
CountOf(f) == summary[f][selArgs[1]]

\* C7: the returned index holds exactly the frames whose count for the label
\* lies in [min_elts, max_elts], both bounds inclusive, in the order of the
\* summary, and the call leaves the summary unchanged; a frame with count 10
\* is returned for [0, 25] and not for [11, 25].
C7_ExactlyFramesInRange ==
    /\ [][summary' = summary]_vars
    /\ [](spc = "returned" =>
            /\ \A k \in 1..Len(selected_frames) :
                  selected_frames[k] \in 1..Len(summary)
            /\ \A k1, k2 \in 1..Len(selected_frames) :
                  k1 < k2 => selected_frames[k1] < selected_frames[k2]
            /\ \A f \in 1..Len(summary) :
                  (\E k \in 1..Len(selected_frames) : selected_frames[k] = f)
                  <=> (selArgs[2] <= CountOf(f) /\ CountOf(f) <= selArgs[3])
            /\ \A f \in 1..Len(summary) :
                  CountOf(f) = 10 /\ selArgs[3] = 25 =>
                     /\ selArgs[2] = 0 =>
                           \E k \in 1..Len(selected_frames) : selected_frames[k] = f
                     /\ selArgs[2] = 11 =>
                           \A k \in 1..Len(selected_frames) : selected_frames[k] # f)

\* C7 witness: a call with [10, 25] returns a frame whose count is exactly 10
\* and leaves out another frame.
C7_Witness ==
    /\ spc = "returned"
    /\ selArgs # NoArgs
    /\ selArgs[2] = 10
    /\ selArgs[3] = 25
    /\ Len(selected_frames) < Len(summary)
    /\ \E k \in 1..Len(selected_frames) : CountOf(selected_frames[k]) = 10

\* ------------------------------------------------------------------------
\* Properties of main
\* ------------------------------------------------------------------------
Proceeded == mpc \in {"ground_truth", "no_frames", "yolo", "done"}

\* C2: main reaches the call of yolo_v3 only with all three assets present
\* and matching their md5; a run in which an asset still fails validation
\* after download_file was called for it is fatal and does not proceed; and
\* download_file is called at most once per asset in a run.
C2_InferenceOnlyWithValidatedAssets ==
    /\ mpc = "yolo" => \A f \in FileNames : file_downloaded(disk, f)
    /\ \A f \in FileNames :
          (invoked[f] > 0 /\ ~file_downloaded(disk, f)) => ~Proceeded
    /\ \A f \in FileNames : invoked[f] <= 1

====
